---------------------------- MODULE Spec2Model ----------------------------
(***************************************************************************)
(* A model of gpx_route_status: the pipeline get_closed_roads and the      *)
(* functions it calls (sampling, the cached reverse-geocode fan-out, the   *)
(* road-number lookup, the traffic-feed fetch, the road-name matcher, the  *)
(* closure classifier and the route plot).                                 *)
(*                                                                         *)
(* Data representation                                                     *)
(*  - a string is a sequence of characters of Alphabet; "W1" is the        *)
(*    full-width digit one (NFKC maps it to "1"), "G" is the character     *)
(*    '号', "K" is any other character;                                     *)
(*  - Python's None is NoneName where a road name is expected and Null     *)
(*    elsewhere;                                                           *)
(*  - a route point is <<lat, lon>> on an integer grid whose cells are     *)
(*    GridMeters apart; a feed point is <<lon, lat>>;                      *)
(*  - a feed feature is the record of its properties.                      *)
(***************************************************************************)
EXTENDS Integers, Sequences, FiniteSets, TLC

\* ------------------------------------------------------------- bounds
MaxNameLen == 3
MaxFeatures == 1
MaxRecords == 3
MaxLat == 2
MaxRoute == 3
GridMeters == 50
MaxRunRoute == 2
MaxLookups == 3
MaxSampleRoute == 4
MaxStride == 5

\* ------------------------------------------------- program constants
distance_threshold == 60

Null == "None"
NoneName == <<"None">>

\* The value '通行止' of postprocessing.py line 115.
ClosureMarker == "tsukodome"

\* ---------------------------------------------------------- strings
Digits == {"1", "W1"}
Alphabet == {"1", "W1", "G", "K"}

RECURSIVE StringsUpTo(_)
StringsUpTo(n) ==
  IF n = 0 THEN {<<>>}
  ELSE LET shorter == StringsUpTo(n - 1)
       IN shorter \cup {Append(s, c) : s \in {t \in shorter : Len(t) = n - 1}, c \in Alphabet}

Names == StringsUpTo(MaxNameLen)

\* unicodedata.normalize("NFKC", s): the full-width digit becomes the ASCII one.
NFKCChar(c) == IF c = "W1" THEN "1" ELSE c
normalize(s) == [k \in 1..Len(s) |-> NFKCChar(s[k])]

\* \d of Python's re on str matches every Unicode decimal digit.
IsDigit(c) == c \in Digits

\* The end of the maximal run of digits that starts at position i.
RECURSIVE DigitRunEnd(_, _)
DigitRunEnd(s, i) ==
  IF i < Len(s) /\ IsDigit(s[i + 1]) THEN DigitRunEnd(s, i + 1) ELSE i

\* re.search("\d+号", s) matches at i: digits from i, then '号'.
MatchesAt(s, i) ==
  /\ IsDigit(s[i])
  /\ DigitRunEnd(s, i) < Len(s)
  /\ s[DigitRunEnd(s, i) + 1] = "G"

clean_road_names(road_name) ==
  LET s == normalize(road_name)
      starts == {i \in 1..Len(s) : MatchesAt(s, i)}
  IN IF starts # {}
     THEN LET i == CHOOSE x \in starts : \A y \in starts : x <= y
          IN SubSeq(s, i, DigitRunEnd(s, i) + 1)
     ELSE s

filter_traffic_status_by_road(road_number, traffic_data) ==
  LET Matched(f) == road_number = clean_road_names(f.r)
  IN SelectSeq(traffic_data, Matched)

\* ------------------------------------------------------- classifier
\* One row of pd.DataFrame(properties) after the drop of useless_cols ("cs")
\* and the rename of column_mapping.
Row(f) ==
  [work_type |-> f.c, direction |-> f.d, location_description |-> f.i,
   coordinates |-> f.p, route_name |-> f.r, restriction_description |-> f.rd]

NotNullDescription(row) == row.restriction_description # Null
\* A classifier that takes every description that starts with the marker.
IsCompleteClosure_prefix(row) ==
  row.restriction_description \in {ClosureMarker, "tsukodome-me"}
IsCompleteClosure(row) == row.restriction_description = ClosureMarker

\* filter_closed_roads: <<df, complete_closed_roads>>.
filter_closed_roads(closed_roads) ==
  LET df == [k \in 1..Len(closed_roads) |-> Row(closed_roads[k])]
  IN IF df # <<>>
     THEN LET full == SelectSeq(df, NotNullDescription)
          IN <<full, SelectSeq(full, IsCompleteClosure)>>
     ELSE <<<<>>, <<>>>>

\* ---------------------------------------------------------- geometry
\* The grid is two cells wide: enough for a point to differ from its mirror
\* image (lat and lon exchanged).
Lons == {0, 1}
GridPoints == (0..MaxLat) \X Lons

\* p[::-1] of a two-element point.
Reversed(p) == <<p[2], p[1]>>

Sq(x) == x * x

\* geodesic(a, b).meters < distance_threshold, a and b as (lat, lon).
WithinThreshold(a, b) ==
  Sq(GridMeters) * (Sq(a[1] - b[1]) + Sq(a[2] - b[2])) < Sq(distance_threshold)

\* geodesic(a, b).km rounded to three decimals, in thousandths of a
\* kilometre: the distance on the grid rounded to the metre.
RoundedMeters(a, b) ==
  LET d2 == Sq(GridMeters) * (Sq(a[1] - b[1]) + Sq(a[2] - b[2]))
  IN CHOOSE m \in 0..(GridMeters * (MaxLat + 2)) :
       (m = 0 \/ Sq(2 * m - 1) <= 4 * d2) /\ 4 * d2 < Sq(2 * m + 1)

\* calculate_geo_distance of utils.py; the pipeline does not call it.
calculate_geo_distance(points) ==
  IF Len(points) = 2
  THEN RoundedMeters(Reversed(points[1]), Reversed(points[2]))
  ELSE 0

\* ------------------------------------------------------------- plot
\* A scan that tests for the end before it appends the point.
RECURSIVE ScanRoute_end_excluded(_, _, _, _, _, _)
ScanRoute_end_excluded(coords, k, start, end, start_found, closed) ==
  IF k > Len(coords) THEN [found |-> FALSE, pts |-> closed]
  ELSE
    LET pt == coords[k]
        nearStart == WithinThreshold(Reversed(start), pt)
        nearEnd == WithinThreshold(Reversed(end), pt)
        found1 == start_found \/ nearStart \/ nearEnd
        end1 == IF ~start_found /\ nearEnd THEN start ELSE end
    IN IF found1
       THEN IF WithinThreshold(Reversed(end1), pt)
            THEN [found |-> TRUE, pts |-> closed]
            ELSE ScanRoute_end_excluded(coords, k + 1, start, end1, TRUE, Append(closed, pt))
       ELSE ScanRoute_end_excluded(coords, k + 1, start, end1, FALSE, closed)

\* A scan that keeps looking for the original end after it met the end first.
RECURSIVE ScanRoute_end_kept(_, _, _, _, _, _)
ScanRoute_end_kept(coords, k, start, end, start_found, closed) ==
  IF k > Len(coords) THEN [found |-> FALSE, pts |-> closed]
  ELSE
    LET pt == coords[k]
        nearStart == WithinThreshold(Reversed(start), pt)
        nearEnd == WithinThreshold(Reversed(end), pt)
        found1 == start_found \/ nearStart \/ nearEnd
    IN IF found1
       THEN IF nearEnd
            THEN [found |-> TRUE, pts |-> Append(closed, pt)]
            ELSE ScanRoute_end_kept(coords, k + 1, start, end, TRUE, Append(closed, pt))
       ELSE ScanRoute_end_kept(coords, k + 1, start, end, FALSE, closed)

\* The inner loop of plot_route_with_closed_sections from route index k on:
\* the record [found, pts] of (start_found and end_found, closed points).
RECURSIVE ScanRoute(_, _, _, _, _, _)
ScanRoute(coords, k, start, end, start_found, closed) ==
  IF k > Len(coords) THEN [found |-> FALSE, pts |-> closed]
  ELSE
    LET pt == coords[k]
        nearStart == WithinThreshold(Reversed(start), pt)
        nearEnd == WithinThreshold(Reversed(end), pt)
        found1 == start_found \/ nearStart \/ nearEnd
        end1 == IF ~start_found /\ nearEnd THEN start ELSE end
    IN IF found1
       THEN IF WithinThreshold(Reversed(end1), pt)
            THEN [found |-> TRUE, pts |-> Append(closed, pt)]
            ELSE ScanRoute(coords, k + 1, start, end1, TRUE, Append(closed, pt))
       ELSE ScanRoute(coords, k + 1, start, end1, FALSE, closed)

ScanSection(coords, section) ==
  ScanRoute(coords, 1, section[1], section[2], FALSE, <<>>)

HasTwoPoints(section) == Len(section) = 2

RouteTrace(coords) == [name |-> "Route", pts |-> coords]
ClosedTrace(pts) == [name |-> "Closed Road", pts |-> pts]

\* The traces added for the closed sections, in the order of the sections.
RECURSIVE RedTraces(_, _, _)
RedTraces(coords, sections, k) ==
  IF k > Len(sections) THEN <<>>
  ELSE LET scan == ScanSection(coords, sections[k])
       IN (IF scan.found THEN <<ClosedTrace(scan.pts)>> ELSE <<>>)
          \o RedTraces(coords, sections, k + 1)

\* The figure of plot_route_with_closed_sections for a non-empty route.
plot_route_with_closed_sections(coords, closed_sections) ==
  <<RouteTrace(coords)>>
    \o RedTraces(coords, SelectSeq(closed_sections, HasTwoPoints), 1)

\* --------------------------------------------------------- sampling
\* The indices (1-based) of coordinates[::interval] for a non-zero interval:
\* from the first point forward, or from the last point backward when the
\* step is negative.
RECURSIVE SliceIdx(_, _, _)
SliceIdx(k, step, len) ==
  IF k < 1 \/ k > len THEN <<>> ELSE <<k>> \o SliceIdx(k + step, step, len)

\* A sampling that starts one stride into the route.
sample_points_from_stride(coordinates, interval) ==
  LET idx == SliceIdx(1 + interval, interval, Len(coordinates))
  IN [k \in 1..Len(idx) |-> coordinates[idx[k]]]

sample_points(coordinates, interval) ==
  LET first == IF interval > 0 THEN 1 ELSE Len(coordinates)
      idx == SliceIdx(first, interval, Len(coordinates))
  IN [k \in 1..Len(idx) |-> coordinates[idx[k]]]

\* ------------------------------------------------- external services
\* Inputs of one run of the pipeline.
RunPoints == {<<0, 0>>, <<1, 0>>}
Strides == {-1, 0, 1, 2}
Routes(points, n) == UNION {[1..m -> points] : m \in 0..n}

\* The "address" object of a reverse-geocode reply: the road, the region
\* code, and whether it holds any other key.
Address(road, pref, rest) == [road |-> road, pref |-> pref, rest |-> rest]
EmptyAddress == Address(NoneName, Null, FALSE)
Addresses ==
  {Address(<<"K", "1", "G">>, "JP-13", TRUE), Address(<<"K">>, "JP-14", TRUE),
   Address(NoneName, Null, TRUE)}
\* The replies of the geocoder: with an address, or (an error reply) without.
Payloads ==
  {[has_address |-> TRUE, address |-> a] : a \in Addresses}
    \cup {[has_address |-> FALSE, address |-> EmptyAddress]}

\* bool(dict): a dict is true when it holds a key.
Truthy(a) == a.road # NoneName \/ a.pref # Null \/ a.rest

\* The outcomes of one Overpass query: it fails, it finds no way, or the
\* first way found has the tag ref (or lacks it).
OsmOutcomes ==
  {[kind |-> "fail", ref |-> <<>>], [kind |-> "none", ref |-> <<>>],
   [kind |-> "ref", ref |-> <<"1">>], [kind |-> "ref", ref |-> NoneName]}

Feature(r, rd, p) ==
  [c |-> "c", d |-> "d", i |-> "i", p |-> p, r |-> r, rd |-> rd, cs |-> "cs"]

Descriptions == {Null, ClosureMarker, "tsukodome-me", "katagawa"}

RunFeatures ==
  {Feature(<<"K", "W1", "G">>, ClosureMarker, << <<0, 0>>, <<0, 1>> >>),
   Feature(<<"K">>, "katagawa", << <<0, 0>> >>)}
\* The outcomes of the two requests of one feed fetch.
FeedOutcomes ==
  {[kind |-> "target_fail", features |-> <<>>],
   [kind |-> "data_fail", features |-> <<>>]}
    \cup {[kind |-> "ok", features |-> fs] : fs \in Routes(RunFeatures, MaxFeatures)}

\* list(set(xs)): the distinct values in some order.
Range(seq) == {seq[k] : k \in 1..Len(seq)}
Orderings(S) ==
  {seq \in [1..Cardinality(S) -> S] : \A a, b \in 1..Cardinality(S) : seq[a] = seq[b] => a = b}

\* ------------------------------------------------------------ state
VARIABLES
  pc,                    \* where get_closed_roads is
  error,                 \* the exception that ended the run, or Null
  interval,              \* gpx_points_interval
  coordinates,           \* extract_coordinates_from_gpx(gpx_file_path)
  tasks,                 \* the get_road_address coroutines of the gather
  cache,                 \* the aiocache memory cache, by coordinate pair
  fetch_calls,           \* requests sent to the geocoder, by coordinate pair
  osm_calls,             \* requests sent to Overpass
  feed_calls,            \* requests sent to the traffic feed
  roads, prefs,          \* unique_road_numbers, prefecture_codes
  road_numbers,          \* the dict of get_road_numbers, as <<name, number>> pairs
  traffic_data,          \* the feeds fetched so far, one list of features each
  closed_roads,          \* the matched features
  all_affected_roads,    \* df of filter_closed_roads
  complete_closed_roads, \* its second result
  closed_road_points,    \* the sections handed to the plot
  fig                    \* the traces of the figure

geoVars == <<tasks, cache, fetch_calls>>
dataVars ==
  <<roads, prefs, road_numbers, traffic_data, closed_roads, all_affected_roads,
    complete_closed_roads, closed_road_points, fig>>
vars ==
  <<pc, error, interval, coordinates, tasks, cache, fetch_calls, osm_calls,
    feed_calls, roads, prefs, road_numbers, traffic_data, closed_roads,
    all_affected_roads, complete_closed_roads, closed_road_points, fig>>

NoEntry == [present |-> FALSE, value |-> EmptyAddress]

FreshGeo ==
  /\ tasks = <<>>
  /\ cache = [k \in GridPoints |-> NoEntry]
  /\ fetch_calls = [k \in GridPoints |-> 0]

FreshCalls ==
  /\ error = Null
  /\ osm_calls = 0
  /\ feed_calls = 0

FreshResults ==
  /\ all_affected_roads = <<>>
  /\ complete_closed_roads = <<>>
  /\ fig = <<>>

\* A run of get_closed_roads on a route and a stride, in a new process.
Init ==
  /\ pc = "start"
  /\ interval \in Strides
  /\ coordinates \in Routes(RunPoints, MaxRunRoute)
  /\ FreshGeo /\ FreshCalls /\ FreshResults
  /\ roads = <<>>
  /\ prefs = <<>>
  /\ road_numbers = <<>>
  /\ traffic_data = <<>>
  /\ closed_roads = <<>>
  /\ closed_road_points = <<>>

Fail(exception) ==
  /\ pc' = "failed"
  /\ error' = exception

\* ------------------------------------------------ geocode fan-out
\* A call of get_road_address(lat, lon): present and fetched record whether
\* the cache held an entry when the lookup read it and whether the lookup
\* sent a request; cached_at_call whether it held one when the call was made.
Lookup(key) ==
  [key |-> key, pc |-> "get", cached_at_call |-> cache[key].present,
   present |-> FALSE, fetched |-> FALSE, result |-> EmptyAddress]

InFlight(t) == t.pc \in {"get", "fetch", "set"}

\* get_roads_and_prefecture_codes up to the await of the gather: the
\* sampling, then one get_road_address coroutine per sampled point.
Sample ==
  /\ pc = "start"
  /\ IF interval = 0
     THEN /\ Fail("ValueError: slice step cannot be zero")
          /\ UNCHANGED tasks
     ELSE /\ tasks' = LET sampled_points == sample_points(coordinates, interval)
                      IN [k \in 1..Len(sampled_points) |-> Lookup(sampled_points[k])]
          /\ pc' = "gather"
          /\ UNCHANGED error
  /\ UNCHANGED <<interval, coordinates, cache, fetch_calls, osm_calls, feed_calls, dataVars>>

\* get_road_address, lines 53-58: the cache read, then the return of a true
\* cached value or the request to the geocoder.
CacheGet(n) ==
  /\ pc = "gather"
  /\ n \in 1..Len(tasks)
  /\ tasks[n].pc = "get"
  /\ LET key == tasks[n].key
         cached_result == cache[key].value
     IN IF cache[key].present /\ Truthy(cached_result)
        THEN /\ tasks' = [tasks EXCEPT ![n].pc = "done", ![n].present = TRUE,
                                       ![n].result = cached_result]
             /\ UNCHANGED fetch_calls
        ELSE /\ tasks' = [tasks EXCEPT ![n].pc = "fetch", ![n].fetched = TRUE,
                                       ![n].present = cache[key].present]
             /\ fetch_calls' = [fetch_calls EXCEPT ![key] = @ + 1]
  /\ UNCHANGED <<pc, error, interval, coordinates, cache, osm_calls, feed_calls, dataVars>>

\* fetch_address returns: address_data.get("address", {}).
FetchReturn(n) ==
  /\ pc = "gather"
  /\ n \in 1..Len(tasks)
  /\ tasks[n].pc = "fetch"
  /\ \E address_data \in Payloads :
       tasks' = [tasks EXCEPT ![n].pc = "set",
                              ![n].result = IF address_data.has_address
                                            THEN address_data.address
                                            ELSE EmptyAddress]
  /\ UNCHANGED <<pc, error, interval, coordinates, cache, fetch_calls, osm_calls,
                 feed_calls, dataVars>>

\* fetch_address raises (the request fails, or the reply is not JSON).
FetchRaise(n) ==
  /\ pc = "gather"
  /\ n \in 1..Len(tasks)
  /\ tasks[n].pc = "fetch"
  /\ tasks' = [tasks EXCEPT ![n].pc = "raised"]
  /\ UNCHANGED <<pc, error, interval, coordinates, cache, fetch_calls, osm_calls,
                 feed_calls, dataVars>>

\* get_road_address, lines 60-61.
CacheSet(n) ==
  /\ pc = "gather"
  /\ n \in 1..Len(tasks)
  /\ tasks[n].pc = "set"
  /\ cache' = [cache EXCEPT ![tasks[n].key] = [present |-> TRUE, value |-> tasks[n].result]]
  /\ tasks' = [tasks EXCEPT ![n].pc = "done"]
  /\ UNCHANGED <<pc, error, interval, coordinates, fetch_calls, osm_calls, feed_calls,
                 dataVars>>

\* pydash.map_(addresses, ["road"]) and ["ISO3166-2-lvl4"].
AddressRoads == {tasks[n].result.road : n \in 1..Len(tasks)}
AddressPrefs == {tasks[n].result.pref : n \in 1..Len(tasks)}

\* asyncio.gather returns once every lookup has returned; then lines 108-110.
GatherReturn ==
  /\ pc = "gather"
  /\ \A n \in 1..Len(tasks) : tasks[n].pc = "done"
  /\ roads' \in Orderings(AddressRoads)
  /\ prefs' \in Orderings(AddressPrefs)
  /\ pc' = "lookup"
  /\ UNCHANGED <<error, interval, coordinates, geoVars, osm_calls, feed_calls,
                 road_numbers, traffic_data, closed_roads, all_affected_roads,
                 complete_closed_roads, closed_road_points, fig>>

\* asyncio.gather raises as soon as one lookup has raised; the other lookups
\* are not cancelled, and the exception ends the run and stops the loop.
GatherRaise ==
  /\ pc = "gather"
  /\ \E n \in 1..Len(tasks) : tasks[n].pc = "raised"
  /\ Fail("geocode request failed")
  /\ UNCHANGED <<interval, coordinates, geoVars, osm_calls, feed_calls, dataVars>>

\* --------------------------------------------- road-number lookup
\* get_osm_road_info(road)[road] for the reply o of the query.
RoadNumber(road, o) == IF o.kind = "ref" THEN o.ref \o <<"G">> ELSE road

\* The first of the iterations of a loop that raise, 0 when none does.
FirstOf(raising) ==
  IF raising = {} THEN 0 ELSE CHOOSE k \in raising : \A j \in raising : k <= j

\* get_road_numbers for the replies the queries get, one per road in order:
\* the dict, or the index of the query that raised.
get_road_numbers(road_names, replies) ==
  LET bad == FirstOf({k \in 1..Len(road_names) : replies[k].kind = "fail"})
  IN [raised |-> bad,
      dict |-> [k \in 1..Len(road_names) |-> <<road_names[k], RoadNumber(road_names[k], replies[k])>>]]

\* pipeline.py lines 53-56: one blocking query per road name.
RoadNumbers ==
  /\ pc = "lookup"
  /\ \E replies \in [1..Len(roads) -> OsmOutcomes] :
       LET got == get_road_numbers(roads, replies)
       IN IF got.raised # 0
          THEN /\ osm_calls' = got.raised
               /\ Fail("Overpass request failed")
               /\ UNCHANGED road_numbers
          ELSE /\ osm_calls' = Len(roads)
               /\ road_numbers' = got.dict
               /\ pc' = "feeds"
               /\ UNCHANGED error
  /\ UNCHANGED <<interval, coordinates, geoVars, feed_calls, roads, prefs, traffic_data,
                 closed_roads, all_affected_roads, complete_closed_roads,
                 closed_road_points, fig>>

\* ------------------------------------------------- traffic feeds
\* The requests one pass of the loop of lines 61-65 sends for reply o.
FeedRequests(pref, o) ==
  IF pref = Null THEN 0 ELSE IF o.kind = "target_fail" THEN 1 ELSE 2

RECURSIVE Sum(_)
Sum(seq) == IF seq = <<>> THEN 0 ELSE Head(seq) + Sum(Tail(seq))

\* The loop over prefs for the replies the feed gives, one per region in
\* order: the feeds, the index of the pass that raised, the requests sent.
fetch_traffic_data(pref_codes, replies) ==
  LET bad == FirstOf({k \in 1..Len(pref_codes) :
                        pref_codes[k] = Null \/ replies[k].kind # "ok"})
      passes == IF bad = 0 THEN Len(pref_codes) ELSE bad
  IN [raised |-> bad,
      requests |-> Sum([k \in 1..passes |-> FeedRequests(pref_codes[k], replies[k])]),
      data |-> [k \in 1..Len(pref_codes) |-> replies[k].features]]

Feeds ==
  /\ pc = "feeds"
  /\ \E replies \in [1..Len(prefs) -> FeedOutcomes] :
       LET got == fetch_traffic_data(prefs, replies)
       IN /\ feed_calls' = got.requests
          /\ IF got.raised # 0
             THEN /\ Fail(IF prefs[got.raised] = Null
                          THEN "AttributeError: NoneType has no replace"
                          ELSE "HTTPStatusError")
                  /\ UNCHANGED traffic_data
             ELSE /\ traffic_data' = got.data
                  /\ pc' = "filter"
                  /\ UNCHANGED error
  /\ UNCHANGED <<interval, coordinates, geoVars, osm_calls, roads, prefs, road_numbers,
                 closed_roads, all_affected_roads, complete_closed_roads,
                 closed_road_points, fig>>

\* -------------------------------------------------------- matching
RECURSIVE Flatten(_)
Flatten(lists) == IF lists = <<>> THEN <<>> ELSE Head(lists) \o Flatten(Tail(lists))

\* pipeline.py lines 68-72: for every road number, for every feed.
match_roads(numbers, feeds) ==
  Flatten([a \in 1..Len(numbers) |->
             Flatten([b \in 1..Len(feeds) |->
                        filter_traffic_status_by_road(numbers[a][2], feeds[b])])])

FilterStep ==
  /\ pc = "filter"
  /\ closed_roads' = match_roads(road_numbers, traffic_data)
  /\ pc' = "classify"
  /\ UNCHANGED <<error, interval, coordinates, geoVars, osm_calls, feed_calls, roads,
                 prefs, road_numbers, traffic_data, all_affected_roads,
                 complete_closed_roads, closed_road_points, fig>>

\* pipeline.py lines 73-78.
ClassifyStep ==
  /\ pc = "classify"
  /\ LET tables == filter_closed_roads(closed_roads)
     IN /\ all_affected_roads' = tables[1]
        /\ complete_closed_roads' = tables[2]
        /\ closed_road_points' =
             [k \in 1..Len(tables[2]) |-> tables[2][k].coordinates]
  /\ pc' = "plot"
  /\ UNCHANGED <<error, interval, coordinates, geoVars, osm_calls, feed_calls, roads,
                 prefs, road_numbers, traffic_data, closed_roads, fig>>

\* pipeline.py lines 83-85: the plot; zip(*coords) of an empty route cannot
\* be unpacked into latitudes and longitudes.
PlotStep ==
  /\ pc = "plot"
  /\ IF coordinates = <<>>
     THEN /\ Fail("ValueError: not enough values to unpack")
          /\ UNCHANGED fig
     ELSE /\ fig' = plot_route_with_closed_sections(coordinates, closed_road_points)
          /\ pc' = "done"
          /\ UNCHANGED error
  /\ UNCHANGED <<interval, coordinates, geoVars, osm_calls, feed_calls, roads, prefs,
                 road_numbers, traffic_data, closed_roads, all_affected_roads,
                 complete_closed_roads, closed_road_points>>

\* ---------------------------------------------------- specification
Next ==
  \/ Sample
  \/ \E n \in 1..Len(tasks) : CacheGet(n)
  \/ \E n \in 1..Len(tasks) : FetchReturn(n)
  \/ \E n \in 1..Len(tasks) : FetchRaise(n)
  \/ \E n \in 1..Len(tasks) : CacheSet(n)
  \/ GatherReturn
  \/ GatherRaise
  \/ RoadNumbers
  \/ Feeds
  \/ FilterStep
  \/ ClassifyStep
  \/ PlotStep

Spec == Init /\ [][Next]_vars

\* ------------------------------------------------------ the matcher
\* filter_traffic_status_by_road on every road number the lookup can give
\* for a road name and every road-name field of a feed feature.
MatchInit ==
  /\ pc = "filter"
  /\ interval = 1
  /\ coordinates = << <<0, 0>> >>
  /\ FreshGeo /\ FreshCalls /\ FreshResults
  /\ \E name \in Names, o \in {x \in OsmOutcomes : x.kind # "fail"} :
       /\ roads = <<name>>
       /\ road_numbers = << <<name, RoadNumber(name, o)>> >>
  /\ prefs = <<"JP-13">>
  /\ \E r \in Names : traffic_data = << <<Feature(r, ClosureMarker, << <<0, 0>> >>)>> >>
  /\ closed_roads = <<>>
  /\ closed_road_points = <<>>

SpecMatch == MatchInit /\ [][FilterStep]_vars

\* --------------------------------------------------- the classifier
ClassifyFeatures ==
  {Feature(<<"1", "G">>, rd, p) :
     rd \in Descriptions, p \in {<< <<0, 0>> >>, << <<0, 0>>, <<0, 1>> >>}}

\* filter_closed_roads on every list of at most MaxRecords matched features.
ClassifyInit ==
  /\ pc = "classify"
  /\ interval = 1
  /\ coordinates = << <<0, 0>> >>
  /\ FreshGeo /\ FreshCalls /\ FreshResults
  /\ roads = <<>>
  /\ prefs = <<>>
  /\ road_numbers = <<>>
  /\ traffic_data = <<>>
  /\ closed_roads \in Routes(ClassifyFeatures, MaxRecords)
  /\ closed_road_points = <<>>

SpecClassify == ClassifyInit /\ [][ClassifyStep]_vars

\* --------------------------------------------------------- the plot
FeedPoints == Lons \X (0..MaxLat)

\* One closed section: a pair of feed points, or a geometry of one point.
Sections == (FeedPoints \X FeedPoints) \cup {<<p>> : p \in FeedPoints}

\* plot_route_with_closed_sections on every route of at most MaxRoute grid
\* points and every closed section.
PlotInit ==
  /\ pc = "plot"
  /\ interval = 1
  /\ coordinates \in Routes(GridPoints, MaxRoute)
  /\ FreshGeo /\ FreshCalls /\ FreshResults
  /\ roads = <<>>
  /\ prefs = <<>>
  /\ road_numbers = <<>>
  /\ traffic_data = <<>>
  /\ closed_roads = <<>>
  /\ \E section \in Sections : closed_road_points = <<section>>

SpecPlot == PlotInit /\ [][PlotStep]_vars

\* -------------------------------------------------------- the cache
\* A call of get_road_address for a coordinate pair, at any time.
StartLookup(key) ==
  /\ pc = "gather"
  /\ Len(tasks) < MaxLookups
  /\ tasks' = Append(tasks, Lookup(key))
  /\ UNCHANGED <<pc, error, interval, coordinates, cache, fetch_calls, osm_calls,
                 feed_calls, dataVars>>

\* The time-to-live of an entry runs out: the cache deletes it.
Expire(key) ==
  /\ cache[key].present
  /\ cache' = [cache EXCEPT ![key] = NoEntry]
  /\ UNCHANGED <<pc, error, interval, coordinates, tasks, fetch_calls, osm_calls,
                 feed_calls, dataVars>>

CacheInit ==
  /\ pc = "gather"
  /\ interval = 1
  /\ coordinates = <<>>
  /\ FreshGeo /\ FreshCalls /\ FreshResults
  /\ roads = <<>>
  /\ prefs = <<>>
  /\ road_numbers = <<>>
  /\ traffic_data = <<>>
  /\ closed_roads = <<>>
  /\ closed_road_points = <<>>

CacheNext ==
  \/ \E key \in RunPoints : StartLookup(key)
  \/ \E n \in 1..Len(tasks) : CacheGet(n)
  \/ \E n \in 1..Len(tasks) : FetchReturn(n)
  \/ \E n \in 1..Len(tasks) : FetchRaise(n)
  \/ \E n \in 1..Len(tasks) : CacheSet(n)
  \/ \E key \in RunPoints : Expire(key)

SpecCache == CacheInit /\ [][CacheNext]_vars

\* ------------------------------------------- the plot, two sections
\* A route along one meridian of the grid and closed sections on it.
LinePoints == (0..MaxLat) \X {0}
LineFeedPoints == {0} \X (0..MaxLat)
LineSections == LineFeedPoints \X LineFeedPoints

\* plot_route_with_closed_sections on every route of at most MaxRoute points
\* of the line and every list of two closed sections.
PlotSectionsInit ==
  /\ pc = "plot"
  /\ interval = 1
  /\ coordinates \in Routes(LinePoints, MaxRoute)
  /\ FreshGeo /\ FreshCalls /\ FreshResults
  /\ roads = <<>>
  /\ prefs = <<>>
  /\ road_numbers = <<>>
  /\ traffic_data = <<>>
  /\ closed_roads = <<>>
  /\ \E first \in LineSections, second \in LineSections :
       closed_road_points = <<first, second>>

SpecPlotSections == PlotSectionsInit /\ [][PlotStep]_vars

\* ------------------------------------------------------ the sampler
\* sample_points on every route of at most MaxSampleRoute grid points and
\* every stride from 1 to MaxStride.
SampleInit ==
  /\ pc = "start"
  /\ interval \in 1..MaxStride
  /\ coordinates \in Routes(GridPoints, MaxSampleRoute)
  /\ FreshGeo /\ FreshCalls /\ FreshResults
  /\ roads = <<>>
  /\ prefs = <<>>
  /\ road_numbers = <<>>
  /\ traffic_data = <<>>
  /\ closed_roads = <<>>
  /\ closed_road_points = <<>>

SpecSample == SampleInit /\ [][Sample]_vars

\* ----------------------------------------------------------- claims
AfterFilter == pc \in {"classify", "plot", "done"}
AfterClassify == pc \in {"plot", "done"}
ValidStride == interval > 0

Count(seq, P(_)) == Cardinality({k \in 1..Len(seq) : P(seq[k])})

\* C1: a feed feature is matched (it is among the matched features) if and
\* only if the normaliser applied to some canonical road number of the run
\* equals the normaliser applied to the feature's road-name field.
C1_MatchIffNormalisedEqual ==
  AfterFilter =>
    \A b \in 1..Len(traffic_data) : \A k \in 1..Len(traffic_data[b]) :
      (traffic_data[b][k] \in Range(closed_roads))
        <=> (\E a \in 1..Len(road_numbers) :
               clean_road_names(road_numbers[a][2]) = clean_road_names(traffic_data[b][k].r))

\* C2: for a non-empty list of matched features, the full table holds
\* exactly the input records with a non-null description (as many rows of
\* every description and coordinates as the input has), the complete table
\* holds exactly the rows of the full table whose description is the
\* complete-closure marker, and the complete table is a subset of the full one.
C2_ClassifierPartition ==
  (AfterClassify /\ closed_roads # <<>>) =>
    /\ \A d \in Descriptions, f \in Range(closed_roads) :
         LET SameIn(x) == x.rd = d /\ x.p = f.p
             SameRow(x) == x.restriction_description = d /\ x.coordinates = f.p
         IN /\ Count(all_affected_roads, SameRow) =
                 (IF d # Null THEN Count(closed_roads, SameIn) ELSE 0)
            /\ Count(complete_closed_roads, SameRow) =
                 (IF d = ClosureMarker THEN Count(all_affected_roads, SameRow) ELSE 0)
    /\ Len(all_affected_roads) <= Len(closed_roads)
    /\ Range(complete_closed_roads) \subseteq Range(all_affected_roads)
    /\ \A row \in Range(all_affected_roads) :
         row.restriction_description \notin {Null, ClosureMarker}
           => row \notin Range(complete_closed_roads)

\* C2 witness: three matched features, one without description, one with
\* the marker and one with another description, have been classified.
C2_Witness ==
  /\ AfterClassify
  /\ Len(closed_roads) = 3
  /\ Len(all_affected_roads) = 2
  /\ Len(complete_closed_roads) = 1
  /\ \E row \in Range(all_affected_roads) : row.restriction_description = "tsukodome-me"

\* The route indices within the threshold of a feed point.
NearIdx(p) == {k \in 1..Len(coordinates) : WithinThreshold(Reversed(p), coordinates[k])}
Least(S) == CHOOSE x \in S : \A y \in S : x <= y

\* The case of C3: one section of two points, a point of the route is near
\* its start and no earlier point is near its end.
StartFirst(section) ==
  /\ Len(section) = 2
  /\ NearIdx(section[1]) # {}
  /\ \A k \in NearIdx(section[2]) : k >= Least(NearIdx(section[1]))

\* C3: for one closed section scanned against the route, when i is the
\* first index near the start (no earlier index near the end) and j the
\* first index from i on near the end, exactly one red trace is emitted,
\* the route points i..j; without such a j, or when no point is near the
\* start or the end, no red trace is emitted.
C3_TraceIsFirstStartToFirstEnd ==
  (pc = "done" /\ Len(closed_road_points) = 1) =>
    LET section == closed_road_points[1]
    IN /\ StartFirst(section) =>
            LET i == Least(NearIdx(section[1]))
                ends == {j \in NearIdx(section[2]) : j >= i}
            IN IF ends # {}
               THEN fig = <<RouteTrace(coordinates),
                            ClosedTrace(SubSeq(coordinates, i, Least(ends)))>>
               ELSE fig = <<RouteTrace(coordinates)>>
       /\ (Len(section) = 2 /\ NearIdx(section[1]) = {} /\ NearIdx(section[2]) = {})
            => fig = <<RouteTrace(coordinates)>>

\* C3 witness: the start is found at the second route point and the end at
\* the third, and the red trace holds these two points.
C3_Witness ==
  /\ pc = "done"
  /\ Len(closed_road_points) = 1
  /\ StartFirst(closed_road_points[1])
  /\ Least(NearIdx(closed_road_points[1][1])) = 2
  /\ NearIdx(closed_road_points[1][2]) = {3}
  /\ Len(fig) = 2
  /\ Len(fig[2].pts) = 2

\* C4: a lookup called after an earlier lookup for the same coordinate pair
\* has completed, and that reads the cache while the entry is still there
\* (the time-to-live has not run out), sends no request to the geocoder,
\* whatever address the entry holds.
C4_EntryPresentMeansNoFetch ==
  \A n \in 1..Len(tasks) :
    (tasks[n].cached_at_call /\ tasks[n].present) => ~tasks[n].fetched

\* C5: in the fan-out of one run at most one request is sent to the
\* geocoder for any coordinate pair, under every interleaving.
C5_OneFetchPerKey ==
  ValidStride => \A key \in GridPoints : fetch_calls[key] <= 1

\* C6: once control has left get_multiple_road_addresses, by return or by
\* exception, no lookup it issued is in flight; and no Overpass or feed
\* request is sent while a lookup is in flight.
C6_StructuredJoin ==
  ValidStride =>
  /\ pc \notin {"start", "gather"} => \A n \in 1..Len(tasks) : ~InFlight(tasks[n])
  /\ (osm_calls > 0 \/ feed_calls > 0) => \A n \in 1..Len(tasks) : ~InFlight(tasks[n])

\* C7: in a run over two regions the failure of one region's feed fetch
\* does not end the run.
C7_FeedFailureIsolated ==
  (ValidStride /\ Len(prefs) = 2 /\ Null \notin Range(prefs) /\ pc = "failed")
    => error # "HTTPStatusError"

\* C8: a failed Overpass query does not end the run, and once
\* get_road_numbers has returned its result has one entry per road name.
C8_LookupFallsBack ==
  ValidStride =>
  /\ pc = "failed" => error # "Overpass request failed"
  /\ pc \in {"feeds", "filter", "classify", "plot", "done"} =>
       /\ Len(road_numbers) = Len(roads)
       /\ \A k \in 1..Len(roads) : road_numbers[k][1] = roads[k]

\* C9: a run on a route of zero points ends without an exception, the classifier gives two empty tables for an
\* empty list, and a run without complete closures ends with a figure that
\* holds the route trace and no red trace.
C9_EmptyResultsAreValid ==
  /\ (coordinates = <<>> /\ ValidStride) => pc # "failed"
  /\ (AfterClassify /\ closed_roads = <<>>) =>
       all_affected_roads = <<>> /\ complete_closed_roads = <<>>
  /\ (pc = "done" /\ complete_closed_roads = <<>>) => fig = <<RouteTrace(coordinates)>>

\* C10: with a stride of 0 or below the sampling gives no sampled point
\* (no lookup is issued for one), no request is sent to the geocoder, to
\* Overpass or to the feed, and the run does not complete.
C10_BadStrideRejected ==
  interval <= 0 =>
    /\ pc # "done"
    /\ tasks = <<>>
    /\ \A key \in GridPoints : fetch_calls[key] = 0
    /\ osm_calls = 0 /\ feed_calls = 0

\* The sampled points: the coordinate pairs of the lookups of the fan-out.
SampledPoints == [k \in 1..Len(tasks) |-> tasks[k].key]

\* C11: for a route of length L and a positive stride S the sampled points
\* are the route points at the indices 0, S, 2S, ... below L, in route order:
\* ceil(L/S) points; the point at index 0 alone when S >= L > 0; and the last
\* route point is among them only when L-1 is a multiple of S.
C11_SampleEveryStride ==
  (pc = "gather" /\ interval > 0) =>
    LET L == Len(coordinates)
        S == interval
        n == (L + S - 1) \div S
    IN /\ Len(SampledPoints) = n
       /\ \A k \in 1..n : (k - 1) * S + 1 <= L /\ SampledPoints[k] = coordinates[(k - 1) * S + 1]
       /\ (S >= L /\ L > 0) => SampledPoints = <<coordinates[1]>>
       /\ L > 0 => ((n - 1) * S + 1 = L <=> (L - 1) % S = 0)

\* C11 witness: a route of four points sampled at stride 2 gives its first
\* and third points, and not its last.
C11_Witness ==
  /\ pc = "gather"
  /\ interval = 2
  /\ Len(coordinates) = 4
  /\ coordinates[1] # coordinates[3]
  /\ coordinates[4] \notin {coordinates[1], coordinates[3]}
  /\ SampledPoints = <<coordinates[1], coordinates[3]>>

TableColumns ==
  {"work_type", "direction", "location_description", "coordinates", "route_name",
   "restriction_description", "distance_km"}

\* C12: every row of the affected-roads table has the columns work_type,
\* direction, location_description, coordinates, route_name,
\* restriction_description and distance_km, and distance_km is the distance
\* between the two points of a two-point coordinates field and 0 otherwise.
C12_RowsCarryDistance ==
  AfterClassify =>
    \A k \in 1..Len(all_affected_roads) :
      /\ DOMAIN all_affected_roads[k] = TableColumns
      /\ all_affected_roads[k].distance_km =
           calculate_geo_distance(all_affected_roads[k].coordinates)

\* The route index of the first point near an endpoint of the section.
FirstNear(section) == Least(NearIdx(section[1]) \cup NearIdx(section[2]))

\* The case of C13: the first route point near an endpoint of the section
\* is near its end and not near its start.
EndFirst(section) ==
  /\ Len(section) = 2
  /\ NearIdx(section[1]) \cup NearIdx(section[2]) # {}
  /\ FirstNear(section) \in NearIdx(section[2]) \ NearIdx(section[1])

\* The red traces of one section scanned alone against the whole route:
\* from the first point near an endpoint through the first point from there
\* on that is near the start (when the first point is near the end) or near
\* the end (otherwise); none when there is no such point.
TracesAlone(section) ==
  IF NearIdx(section[1]) \cup NearIdx(section[2]) = {} THEN <<>>
  ELSE LET f == FirstNear(section)
           target == IF f \in NearIdx(section[2]) THEN section[1] ELSE section[2]
           stops == {j \in NearIdx(target) : j >= f}
       IN IF stops = {} THEN <<>>
          ELSE <<ClosedTrace(SubSeq(coordinates, f, Least(stops)))>>

\* C13 as stated: every section whose end is met first gives one red trace
\* of the single route point at which it was met.
C13_EndFirstGivesOnePoint ==
  (pc = "done" /\ \A k \in 1..Len(closed_road_points) : EndFirst(closed_road_points[k])) =>
    fig = <<RouteTrace(coordinates)>>
            \o [k \in 1..Len(closed_road_points) |->
                  ClosedTrace(<<coordinates[FirstNear(closed_road_points[k])]>>)]

\* C13 amended: when the end of a section is met first, the scan goes on to
\* the first later point near the start of the section: the red trace of the
\* section holds the route points from the one to the other, and there is no
\* red trace when no later point is near the start; every section of the
\* list gets the traces it gets when it is scanned alone against the whole
\* route with its own endpoints.
C13_EndFirstRunsToStart ==
  (/\ pc = "done"
   /\ \A k \in 1..Len(closed_road_points) : Len(closed_road_points[k]) = 2
   /\ \E k \in 1..Len(closed_road_points) : EndFirst(closed_road_points[k])) =>
    /\ fig = <<RouteTrace(coordinates)>>
               \o Flatten([k \in 1..Len(closed_road_points) |->
                             TracesAlone(closed_road_points[k])])
    /\ \A k \in 1..Len(closed_road_points) :
         EndFirst(closed_road_points[k]) =>
           \A t \in Range(TracesAlone(closed_road_points[k])) :
             /\ Len(t.pts) >= 2
             /\ t.pts[1] = coordinates[FirstNear(closed_road_points[k])]
             /\ WithinThreshold(Reversed(closed_road_points[k][1]), t.pts[Len(t.pts)])

\* C13 witness: of two sections the first has its end met first and gets a
\* red trace of two points, the second has its start met first and gets its
\* own red trace.
C13_Witness ==
  /\ pc = "done"
  /\ Len(closed_road_points) = 2
  /\ EndFirst(closed_road_points[1])
  /\ StartFirst(closed_road_points[2])
  /\ ~EndFirst(closed_road_points[2])
  /\ Len(fig) = 3
  /\ Len(fig[2].pts) = 2
  /\ Len(fig[3].pts) = 2

\* The number of features in the feeds the run fetched.
FeedFeatures == Sum([b \in 1..Len(traffic_data) |-> Len(traffic_data[b])])

\* C14: in every run each feature of a fetched feed gives at most one row of
\* the affected-roads table and at most one closed-section coordinate pair,
\* however many sampled road names have the same canonical road number: the
\* table has no more rows, and the run no more closed sections, than the
\* fetched feeds have features, and no feature is matched more often than it
\* occurs in the feeds (stated for a route of distinct points).
C14_FeatureJoinedOnce ==
  (/\ ValidStride
   /\ AfterClassify
   /\ \A a, b \in 1..Len(coordinates) : coordinates[a] = coordinates[b] => a = b) =>
    /\ Len(all_affected_roads) <= FeedFeatures
    /\ Len(closed_road_points) <= FeedFeatures
    /\ \A f \in Range(closed_roads) :
         Cardinality({k \in 1..Len(closed_roads) : closed_roads[k] = f})
           <= Sum([b \in 1..Len(traffic_data) |->
                     Cardinality({k \in 1..Len(traffic_data[b]) : traffic_data[b][k] = f})])

=============================================================================
